---------------------------- MODULE Spec2Model ----------------------------
(* Model of port_sniffer_cli (src/src/main.rs): the asynchronous TCP port  *)
(* scanner.  main validates the range, builds the progress bar and the     *)
(* bounded mpsc channel, runs scan() over start_port..=end_port through    *)
(* for_each_concurrent(concurrency, ..), drops the sender, drains the      *)
(* receiver, finishes the progress bar, sorts and prints.                  *)
(*                                                                         *)
(* Everything runs on the single main task: the probe futures live inside  *)
(* the FuturesUnordered of for_each_concurrent and are polled by it, so a  *)
(* step of the model is one step of that task.                             *)
(*                                                                         *)
(* src/port_sniffer_cli/src/main.rs is the same program with               *)
(* CHANNEL_BUFFER_SIZE = 100; src/port_sniffer/src/main.rs only parses its *)
(* arguments.                                                              *)
EXTENDS Integers, Sequences, FiniteSets, TLC

(***************************************************************************)
(* Program constants                                                       *)
(***************************************************************************)
MIN_PORT == 1
MAX_PORT == 65535
CHANNEL_BUFFER_SIZE == 250
\* the same constant in src/port_sniffer_cli/src/main.rs
CHANNEL_BUFFER_SIZE_CLI == 100

(***************************************************************************)
(* Bounds of the model                                                     *)
(***************************************************************************)
\* small scans: start_port and end_port range over 1..MaxPort
MaxPort == 3
\* small scans: concurrency ranges over 1..MaxC
MaxC == 2
\* large scans: the range 1..channel_cap+BigExtra, probed one at a time
BigExtra == 2

\* The three ways timeout(connect) can end for a port of the target.
Outcomes == {"Open", "Closed", "TimedOut"}

VARIABLES
    start_port,     \* --start_port, u16
    end_port,       \* --end_port, u16
    concurrency,    \* --concurrency, usize in 1..100
    target,         \* the scanned host: port -> outcome of a connect to it
    channel_cap,    \* the CHANNEL_BUFFER_SIZE of the build, given to mpsc::channel
    pc,             \* position of main
    exit_code,      \* -1 while the process runs, else its exit status
    pb_len,         \* ProgressBar length (total_ports)
    pb_pos,         \* ProgressBar position
    pb_finished,    \* ProgressBar is in its finished state
    buffer,         \* the mpsc channel's queue
    senders,        \* number of live Sender handles (tx and its clones)
    range_start,    \* RangeInclusive<u16>.start of the port iterator
    range_exhausted,\* RangeInclusive<u16>.exhausted
    stream_live,    \* ForEachConcurrent.stream is Some
    futures,        \* ForEachConcurrent.futures: port -> position of its scan()
    open_ports,     \* the Vec filled by the drain loop
    report,         \* what was printed after the scan
    stderr,         \* the diagnostics written by eprintln!
    drain_log,      \* history: the ports in the order rx.recv() returned them
    admit_log,      \* history: the ports handed to the closure, in order
    sends,          \* history: port -> number of completed tx.send(port)
    incs            \* history: port -> number of pb.inc(1) by its probe

vars == <<start_port, end_port, concurrency, target, pc, exit_code, pb_len,
          pb_pos, pb_finished, buffer, senders, range_start, range_exhausted,
          stream_live, futures, open_ports, report, stderr, drain_log,
          admit_log, sends, incs, channel_cap>>

args    == <<start_port, end_port, concurrency, target, channel_cap>>
hist    == <<drain_log, admit_log, sends, incs>>
pbVars  == <<pb_len, pb_pos, pb_finished>>
strVars == <<range_start, range_exhausted, stream_live>>

(***************************************************************************)
(* Helpers                                                                 *)
(***************************************************************************)
InFlight == DOMAIN futures

Range(s) == {s[i] : i \in DOMAIN s}

\* Variant: the sort is left out.
Sort_Omitted(s) == s

\* Variant: the comparison is reversed.
Sort_Descending(s) ==
    LET n == Len(s)
        rank == <<>> \o [i \in 1..n |->
                    1 + Cardinality({j \in 1..n :
                            s[j] > s[i] \/ (s[j] = s[i] /\ j < i)})]
    IN [k \in 1..n |-> s[CHOOSE i \in 1..n : rank[i] = k]]

\* Vec::sort on u16 (a stable ascending sort): element i of the input goes
\* to the position given by the number of elements that order before it.
Sort(s) ==
    LET n == Len(s)
        rank == <<>> \o [i \in 1..n |->
                    1 + Cardinality({j \in 1..n :
                            s[j] < s[i] \/ (s[j] = s[i] /\ j < i)})]
    IN [k \in 1..n |-> s[CHOOSE i \in 1..n : rank[i] = k]]

\* a value that fits a u16
InU16(x) == 0 <= x /\ x <= 65535

\* `end_port - start_port + 1` leaves the u16 range at the subtraction or at
\* the addition (a panic in a debug build, a wrapped value otherwise)
TotalOverflows(s, e) == ~InU16(e - s) \/ ~InU16((e - s) + 1)

\* Variant: the `+ 1` of the inclusive range is forgotten.
TotalPorts_NoPlusOne(s, e) == (e - s) % 65536

\* total_ports: (end_port - start_port + 1) in u16, widened to u64
TotalPorts(s, e) == (e - s + 1) % 65536

\* timeout(Duration::from_secs(3), TcpStream::connect((addr, port))).await
ConnectResult(p) ==
    CASE target[p] = "Open"     -> "OkOk"
      [] target[p] = "Closed"   -> "OkErr"
      [] target[p] = "TimedOut" -> "Elapsed"

\* Variant: `if let Ok(_) = result`, which also matches a refused connect.
AfterConnect_AnyOk(result) == IF result \in {"OkOk", "OkErr"} THEN "send" ELSE "inc"

\* if let Ok(Ok(_)) = result
AfterConnect(result) == IF result = "OkOk" THEN "send" ELSE "inc"

\* Variant: the half-open range start_port..end_port.
RangeIsEmpty_Exclusive == range_exhausted \/ ~(range_start < end_port)

\* RangeInclusive::is_empty
RangeIsEmpty == range_exhausted \/ ~(range_start <= end_port)

(***************************************************************************)
(* Initial states: the arguments clap accepted                             *)
(***************************************************************************)
\* value_parser of --start_port and --end_port: a u16 within the port bounds
ValidPort(val) == val \in 0..65535 /\ ~(val < MIN_PORT \/ val > MAX_PORT)

\* value_parser of --concurrency: (1..=100).contains(&val)
ValidConcurrency(val) == val \in 1..100

Init ==
    /\ channel_cap \in {CHANNEL_BUFFER_SIZE, CHANNEL_BUFFER_SIZE_CLI}
    /\ \/ /\ start_port \in MIN_PORT..MaxPort
          /\ end_port \in MIN_PORT..MaxPort
          /\ concurrency \in 1..MaxC
          /\ target \in [start_port..end_port -> Outcomes]
       \/ /\ start_port = MIN_PORT
          /\ end_port = channel_cap + BigExtra
          /\ concurrency = 1
          /\ \E X \in SUBSET (MIN_PORT..BigExtra) :
                target = [p \in start_port..end_port |->
                             IF p \in X THEN "TimedOut" ELSE "Open"]
    /\ ValidPort(start_port) /\ ValidPort(end_port)
    /\ ValidConcurrency(concurrency)
    /\ pc = "check_range"
    /\ exit_code = -1
    /\ pb_len = 0
    /\ pb_pos = 0
    /\ pb_finished = FALSE
    /\ buffer = <<>>
    /\ senders = 0
    /\ range_start = 0
    /\ range_exhausted = FALSE
    /\ stream_live = FALSE
    /\ futures = <<>>
    /\ open_ports = <<>>
    /\ report = [none |-> FALSE, ports |-> <<>>]
    /\ stderr = <<>>
    /\ drain_log = <<>>
    /\ admit_log = <<>>
    /\ sends = [p \in start_port..end_port |-> 0]
    /\ incs = [p \in start_port..end_port |-> 0]

(***************************************************************************)
(* main, before the scan                                                   *)
(***************************************************************************)
\* Variant: the comparison is the wrong way round.
RangeRejected_Swapped == end_port > start_port

\* if start_port > end_port
RangeRejected == start_port > end_port

\* if start_port > end_port { eprintln!(..); std::process::exit(1); }
RejectRange ==
    /\ pc = "check_range"
    /\ RangeRejected
    /\ stderr' = Append(stderr, [error |-> "start_port cannot be greater than end_port",
                                  start_port |-> start_port,
                                  end_port |-> end_port])
    /\ pc' = "exited"
    /\ exit_code' = 1
    /\ UNCHANGED <<args, pbVars, buffer, senders, strVars, futures,
                   open_ports, report, drain_log, admit_log, sends, incs>>

\* total_ports, ProgressBar::new(total_ports), mpsc::channel(..),
\* tokio_stream::iter(start_port..=end_port)
Setup ==
    /\ pc = "check_range"
    /\ ~RangeRejected
    /\ pb_len' = TotalPorts(start_port, end_port)
    /\ pb_pos' = 0
    /\ pb_finished' = FALSE
    /\ buffer' = <<>>
    /\ senders' = 1
    /\ range_start' = start_port
    /\ range_exhausted' = FALSE
    /\ stream_live' = TRUE
    /\ futures' = <<>>
    /\ pc' = "dispatch"
    /\ UNCHANGED <<args, exit_code, open_ports, report, stderr, drain_log, admit_log, sends, incs>>

(***************************************************************************)
(* for_each_concurrent(concurrency, |port| scan(tx.clone(), port, ..))     *)
(***************************************************************************)
\* Variant: the limit check keeps one slot unused.
HasRoom_OneShort == Cardinality(InFlight) + 1 < concurrency

\* Variant: the limit check lets one future too many in.
HasRoom_OffByOne == Cardinality(InFlight) <= concurrency

\* The stream is polled only while fewer than `limit` futures are held.
HasRoom == Cardinality(InFlight) < concurrency

\* Variant: the range is walked from its far end, as by `.rev()`.
Yielded_Rev == end_port - (range_start - start_port)

\* The item RangeInclusive::next returns.
Yielded == range_start

\* RangeInclusive::next yields range_start and advances (or marks the
\* range exhausted on its last element); the closure clones tx and the
\* scan future is pushed.
Admit ==
    /\ pc = "dispatch"
    /\ stream_live
    /\ HasRoom
    /\ ~RangeIsEmpty
    /\ LET port == Yielded IN
        /\ IF range_start < end_port
             THEN /\ range_start' = range_start + 1
                  /\ range_exhausted' = range_exhausted
             ELSE /\ range_start' = range_start
                  /\ range_exhausted' = TRUE
        /\ futures' = [q \in InFlight \cup {port} |->
                          IF q = port THEN "connect" ELSE futures[q]]
        /\ senders' = senders + 1
        /\ admit_log' = Append(admit_log, port)
    /\ UNCHANGED <<args, pc, exit_code, pbVars, buffer, stream_live,
                   open_ports, report, stderr, drain_log, sends, incs>>

\* The stream returns None: ForEachConcurrent drops it.
StreamEnd ==
    /\ pc = "dispatch"
    /\ stream_live
    /\ HasRoom
    /\ RangeIsEmpty
    /\ stream_live' = FALSE
    /\ UNCHANGED <<args, pc, exit_code, pbVars, buffer, senders, range_start,
                   range_exhausted, futures, open_ports, report, stderr, drain_log, admit_log,
                   sends, incs>>

\* Variant: scan() returns at once when the connect did not succeed,
\* before it reaches pb.inc(1).
ProbeConnect_EarlyReturn(p) ==
    /\ pc = "dispatch"
    /\ p \in InFlight
    /\ futures[p] = "connect"
    /\ IF ConnectResult(p) = "OkOk"
         THEN /\ futures' = [futures EXCEPT ![p] = "send"]
              /\ senders' = senders
         ELSE /\ futures' = [q \in InFlight \ {p} |-> futures[q]]
              /\ senders' = senders - 1
    /\ UNCHANGED <<args, pc, exit_code, pbVars, buffer, strVars,
                   open_ports, report, stderr, drain_log, admit_log, sends, incs>>

\* scan(): the connect attempt or its 3 s timeout resolves.
ProbeConnect(p) ==
    /\ pc = "dispatch"
    /\ p \in InFlight
    /\ futures[p] = "connect"
    /\ futures' = [futures EXCEPT ![p] = AfterConnect(ConnectResult(p))]
    /\ UNCHANGED <<args, pc, exit_code, pbVars, buffer, senders, strVars,
                   open_ports, report, stderr, drain_log, admit_log, sends, incs>>

\* Variant: the channel takes one message more than its capacity.
SendReady_OneMore == Len(buffer) <= channel_cap

\* Variant: the channel takes one message fewer than its capacity.
SendReady_OneFewer == Len(buffer) + 1 < channel_cap

\* A bounded Sender::send completes once the queue has a free slot.
SendReady == Len(buffer) < channel_cap

\* Variant: the progress bar is also incremented inside the `if let`.
ProbeSend_AlsoInc(p) ==
    /\ pc = "dispatch"
    /\ p \in InFlight
    /\ futures[p] = "send"
    /\ SendReady
    /\ buffer' = Append(buffer, p)
    /\ sends' = [sends EXCEPT ![p] = @ + 1]
    /\ futures' = [futures EXCEPT ![p] = "inc"]
    /\ pb_pos' = pb_pos + 1
    /\ UNCHANGED <<args, pc, exit_code, pb_len, pb_finished, senders, strVars,
                   open_ports, report, stderr, drain_log, admit_log, incs>>

\* Variant: the send future is built but never awaited, so nothing is sent.
ProbeSend_NotAwaited(p) ==
    /\ pc = "dispatch"
    /\ p \in InFlight
    /\ futures[p] = "send"
    /\ futures' = [futures EXCEPT ![p] = "inc"]
    /\ UNCHANGED <<args, pc, exit_code, pbVars, buffer, senders, strVars,
                   open_ports, report, stderr, drain_log, admit_log, sends, incs>>

\* scan(): let _ = tx.send(port).await;
ProbeSend(p) ==
    /\ pc = "dispatch"
    /\ p \in InFlight
    /\ futures[p] = "send"
    /\ SendReady
    /\ buffer' = Append(buffer, p)
    /\ sends' = [sends EXCEPT ![p] = @ + 1]
    /\ futures' = [futures EXCEPT ![p] = "inc"]
    /\ UNCHANGED <<args, pc, exit_code, pbVars, senders, strVars,
                   open_ports, report, stderr, drain_log, admit_log, incs>>

\* scan(): pb.inc(1); the future returns, its tx clone is dropped and
\* FuturesUnordered releases it.
ProbeInc(p) ==
    /\ pc = "dispatch"
    /\ p \in InFlight
    /\ futures[p] = "inc"
    /\ pb_pos' = pb_pos + 1
    /\ incs' = [incs EXCEPT ![p] = @ + 1]
    /\ futures' = [q \in InFlight \ {p} |-> futures[q]]
    /\ senders' = senders - 1
    /\ UNCHANGED <<args, pc, exit_code, pb_len, pb_finished, buffer, strVars,
                   open_ports, report, stderr, drain_log, admit_log, sends>>

\* Variant: Ready as soon as no future is held, whatever the stream.
DispatchDone_IgnoresStream == InFlight = {}

\* ForEachConcurrent is Ready once the stream is gone and no future is left.
DispatchDone == ~stream_live /\ InFlight = {}

DispatchReturn ==
    /\ pc = "dispatch"
    /\ DispatchDone
    /\ pc' = "drop_tx"
    /\ UNCHANGED <<args, exit_code, pbVars, buffer, senders, strVars, futures,
                   open_ports, report, stderr, drain_log, admit_log, sends, incs>>

(***************************************************************************)
(* main, after the scan                                                    *)
(***************************************************************************)
\* Variant: drop(tx) is left out.
DropTx_Omitted ==
    /\ pc = "drop_tx"
    /\ pc' = "recv"
    /\ UNCHANGED <<args, exit_code, pbVars, buffer, senders, strVars, futures,
                   open_ports, report, stderr, drain_log, admit_log, sends, incs>>

\* drop(tx);
DropTx ==
    /\ pc = "drop_tx"
    /\ senders' = senders - 1
    /\ pc' = "recv"
    /\ UNCHANGED <<args, exit_code, pbVars, buffer, strVars, futures,
                   open_ports, report, stderr, drain_log, admit_log, sends, incs>>

\* while let Some(port) = rx.recv().await { open_ports.push(port); }
RecvPort ==
    /\ pc = "recv"
    /\ buffer /= <<>>
    /\ open_ports' = Append(open_ports, Head(buffer))
    /\ buffer' = Tail(buffer)
    /\ drain_log' = Append(drain_log, Head(buffer))
    /\ UNCHANGED <<args, pc, exit_code, pbVars, senders, strVars, futures,
                   report, stderr, admit_log, sends, incs>>

\* Variant: recv gives up as soon as every Sender is dropped, queued or not.
ChannelClosed_DropsQueued == senders = 0

\* rx.recv() returns None: the queue is empty and every Sender is dropped.
ChannelClosed == buffer = <<>> /\ senders = 0

RecvClosed ==
    /\ pc = "recv"
    /\ ChannelClosed
    /\ pc' = "finish"
    /\ UNCHANGED <<args, exit_code, pbVars, buffer, senders, strVars, futures,
                   open_ports, report, stderr, drain_log, admit_log, sends, incs>>

\* pb.finish_with_message(..): the bar jumps to its length and is done.
Finish ==
    /\ pc = "finish"
    /\ pb_pos' = pb_len
    /\ pb_finished' = TRUE
    /\ pc' = "sort"
    /\ UNCHANGED <<args, exit_code, pb_len, buffer, senders, strVars, futures,
                   open_ports, report, stderr, drain_log, admit_log, sends, incs>>

\* open_ports.sort(); then "No open ports found." or the list.
SortAndDisplay ==
    /\ pc = "sort"
    /\ LET sorted == Sort(open_ports) IN
        /\ open_ports' = sorted
        /\ report' = [none |-> (sorted = <<>>), ports |-> sorted]
    /\ pc' = "done"
    /\ exit_code' = 0
    /\ UNCHANGED <<args, pbVars, buffer, senders, strVars, futures, stderr,
                   drain_log, admit_log, sends, incs>>

Ports == start_port..end_port

Next ==
    \/ RejectRange
    \/ Setup
    \/ Admit
    \/ StreamEnd
    \/ \E p \in Ports : ProbeConnect(p)
    \/ \E p \in Ports : ProbeSend(p)
    \/ \E p \in Ports : ProbeInc(p)
    \/ DispatchReturn
    \/ DropTx
    \/ RecvPort
    \/ RecvClosed
    \/ Finish
    \/ SortAndDisplay

Spec == Init /\ [][Next]_vars

(***************************************************************************)
(* Derived notions used by the properties                                  *)
(***************************************************************************)
Admitted == Range(admit_log)

\* admitted probes whose scan() has not returned yet
NotCompleted == {p \in Admitted : incs[p] = 0}

Completions == Cardinality({p \in Ports : incs[p] >= 1})

OpenSet == {p \in Ports : target[p] = "Open"}

\* main is past for_each_concurrent(..).await
ScanEnded == pc \in {"drop_tx", "recv", "finish", "sort", "done"}

(***************************************************************************)
(* Properties                                                              *)
(***************************************************************************)
\* C1: at every instant the number of probes admitted by the dispatcher and
\* not yet completed is at most the concurrency limit.
C1_InFlightAtMostC ==
    /\ Cardinality(NotCompleted) <= concurrency
    /\ Cardinality(InFlight) <= concurrency

\* C1 witness: the window is full (two or more probes) while ports of the
\* range are still waiting to be admitted.
C1_Witness ==
    /\ pc = "dispatch"
    /\ concurrency >= 2
    /\ Cardinality(NotCompleted) = concurrency
    /\ stream_live /\ ~RangeIsEmpty

\* C2: no port is admitted twice, only ports of the range are admitted, and
\* when the scan has ended every port of the range has been admitted and the
\* number of completed probes is end_port - start_port + 1 (one for a
\* single-port range).
C2_EachPortOnce ==
    /\ Cardinality(Admitted) = Len(admit_log)
    /\ Admitted \subseteq Ports
    /\ ScanEnded =>
          /\ Admitted = Ports
          /\ Len(admit_log) = end_port - start_port + 1
          /\ Completions = end_port - start_port + 1
          /\ pb_pos = end_port - start_port + 1
          /\ start_port = end_port => Len(admit_log) = 1 /\ pb_pos = 1

\* C2 witness: a scan of several ports has ended.
C2_Witness ==
    /\ pc = "drop_tx"
    /\ end_port > start_port
    /\ concurrency >= 2
    /\ Len(admit_log) = end_port - start_port + 1

\* C3: a scan of a valid range always runs to completion: as long as the
\* final report has not been reached, the run can take a further step (so
\* under fair scheduling it reaches the report).
C3_ScanRunsToCompletion ==
    (start_port <= end_port /\ pc /= "done") => ENABLED Next

\* C4: the collection read after the drain holds exactly the ports of the
\* range whose probe outcome was Open, each once.
C4_OpenPortsExact ==
    pc \in {"finish", "sort", "done"} =>
        /\ Range(open_ports) = OpenSet
        /\ Len(open_ports) = Cardinality(OpenSet)
        /\ Range(open_ports) \subseteq Ports

\* C4 witness: the drain has ended on a scan with two or more open ports,
\* published out of port order by concurrent probes, and a port not open.
C4_Witness ==
    /\ pc = "finish"
    /\ Len(open_ports) >= 2
    /\ open_ports[1] > open_ports[2]
    /\ OpenSet /= Ports

\* C5: the displayed sequence is strictly ascending by port number, whatever
\* order the ports were published in, and is empty exactly when no port of
\* the range is open.
C5_DisplaySorted ==
    pc = "done" =>
        /\ \A i, j \in DOMAIN report.ports :
              i < j => report.ports[i] < report.ports[j]
        /\ Range(report.ports) = Range(drain_log)
        /\ Len(report.ports) = Len(drain_log)
        /\ report.none <=> (OpenSet = {})
        /\ (OpenSet = {}) => report.ports = <<>>

\* C5 witness: the report is out, with two or more ports that were drained
\* in another order than the one displayed.
C5_Witness ==
    /\ pc = "done"
    /\ Len(report.ports) >= 2
    /\ drain_log /= report.ports

\* C6: the final list is a function of the range and the target's per-port
\* outcomes alone: its k-th entry is the open port of the range that has
\* exactly k-1 open ports of the range below it, whatever the concurrency
\* limit and the order in which the probes completed.
C6_ResultDetermined ==
    pc = "done" =>
        LET open == {p \in start_port..end_port : target[p] = "Open"} IN
        /\ Len(report.ports) = Cardinality(open)
        /\ \A k \in 1..Len(report.ports) :
              /\ report.ports[k] \in open
              /\ Cardinality({q \in open : q < report.ports[k]}) = k - 1

\* C6 witness: a report of a concurrent scan whose probes published in an
\* order other than port order.
C6_Witness ==
    /\ pc = "done"
    /\ concurrency >= 2
    /\ Len(drain_log) >= 2
    /\ \E i \in 1..(Len(drain_log) - 1) : drain_log[i] > drain_log[i + 1]

\* a probe that was admitted and whose scan() has returned
Completed(p) == p \in Admitted /\ p \notin InFlight

\* C7: every probe increments the progress bar exactly once whatever its
\* outcome, and publishes its port exactly once if the outcome is Open and
\* never otherwise; the progress count is the number of completed probes,
\* and only Open ports are in the channel or the collected list.
C7_SignalsOncePerProbe ==
    /\ LET completed == Admitted \ InFlight IN
       \A p \in Ports :
          /\ incs[p] <= 1
          /\ sends[p] <= 1
          /\ sends[p] = 1 => target[p] = "Open"
          /\ p \in completed =>
                /\ incs[p] = 1
                /\ sends[p] = IF target[p] = "Open" THEN 1 ELSE 0
          /\ incs[p] = 1 => p \in completed
    /\ pc = "dispatch" => pb_pos = Completions
    /\ Range(buffer) \cup Range(open_ports) \subseteq OpenSet

\* C7 witness: a timed-out probe, a refused probe and an open probe have
\* all completed and been counted; only the open one was published.
C7_Witness ==
    /\ pb_pos = 3
    /\ \E p \in Ports :
           target[p] = "TimedOut" /\ Completed(p) /\ sends[p] = 0
    /\ \E q \in Ports :
           target[q] = "Closed" /\ Completed(q) /\ sends[q] = 0
    /\ \E r \in Ports :
           target[r] = "Open" /\ Completed(r) /\ sends[r] = 1

\* main has built the progress bar
BarCreated == pc \notin {"check_range", "exited"}

\* C8: the progress position never decreases, never exceeds the total
\* end_port - start_port + 1 set at scan start, and equals that total when
\* finish_with_message is reached.
C8_ProgressMonotoneBounded ==
    /\ [](BarCreated =>
            /\ pb_len = end_port - start_port + 1
            /\ pb_pos <= pb_len
            /\ pc = "finish" => pb_pos = pb_len
            /\ pb_finished => pb_pos = pb_len)
    /\ [][pb_pos' >= pb_pos /\ (BarCreated => pb_len' = pb_len)]_vars

\* C8 witness: the bar of a scan of several ports has been finished.
C8_Witness ==
    /\ pb_finished
    /\ pb_len >= 2
    /\ pb_pos = pb_len
    /\ OpenSet /= {} /\ OpenSet /= Ports

\* C9: ports are admitted in strictly ascending numeric order.
C9_AdmissionAscending ==
    \A i \in 1..(Len(admit_log) - 1) : admit_log[i] < admit_log[i + 1]

\* C9 witness: completion does not follow admission: a later-admitted probe
\* has completed while an earlier-admitted one is still in flight.
C9_Witness ==
    \E i, j \in DOMAIN admit_log :
        /\ i < j
        /\ admit_log[i] < admit_log[j]
        /\ Completed(admit_log[j])
        /\ admit_log[i] \in InFlight

\* main has reached the drain loop
DrainBegun == pc \in {"recv", "finish", "sort", "done"}

\* C10: the drain begins only after every port of the range has been
\* admitted and every admitted probe has completed; once it has begun no
\* probe is in flight, no Sender is live and nothing more is sent.
C10_DrainAfterBarrier ==
    /\ [](DrainBegun =>
            /\ Admitted = Ports
            /\ \A p \in Ports : incs[p] = 1
            /\ InFlight = {}
            /\ senders = 0)
    /\ [][DrainBegun => (sends' = sends /\ Len(buffer') <= Len(buffer))]_vars

\* C10 witness: the drain is under way after a concurrent scan: a port has
\* been received and another is still queued.
C10_Witness ==
    /\ pc = "recv"
    /\ concurrency >= 2
    /\ open_ports /= <<>>
    /\ buffer /= <<>>

\* C12: for start_port > end_port the run ends at once: a diagnostic is
\* written and the process exits with a non-zero status, before the total is
\* computed, the progress bar and the channel exist or the dispatcher
\* starts; no probe is admitted, nothing is counted and nothing is
\* published.  Only such inputs are rejected.
C12_EmptyRangeRejected ==
    /\ start_port > end_port =>
          /\ pc \in {"check_range", "exited"}
          /\ pc = "check_range" => ENABLED Next
          /\ pc = "exited" => exit_code = 1 /\ Len(stderr) = 1
          /\ admit_log = <<>> /\ InFlight = {}
          /\ pb_len = 0 /\ pb_pos = 0
          /\ buffer = <<>> /\ senders = 0 /\ ~stream_live
          /\ open_ports = <<>> /\ report.ports = <<>> /\ ~report.none
    /\ (pc = "exited" \/ exit_code = 1 \/ stderr /= <<>>) => start_port > end_port

\* C12 witness: a run with start_port > end_port has exited.
C12_Witness ==
    /\ start_port > end_port
    /\ pc = "exited"
    /\ exit_code = 1
    /\ stderr /= <<>>

\* The lifecycle state of the scan: Idle before the scan is set up; Running
\* while ports are still to be admitted; Draining once every port is
\* admitted and the dispatcher waits for the outstanding probes; Complete
\* from the return of the dispatcher to the printing; Reported after it.
Phase ==
    CASE pc = "check_range" -> "Idle"
      [] pc = "exited" -> "Rejected"
      [] pc = "dispatch" /\ ~RangeIsEmpty -> "Running"
      [] pc = "dispatch" /\ RangeIsEmpty -> "Draining"
      [] pc \in {"drop_tx", "recv", "finish", "sort"} -> "Complete"
      [] pc = "done" -> "Reported"

LifecycleSteps ==
    { <<"Idle", "Running">>, <<"Running", "Draining">>,
      <<"Draining", "Complete">>, <<"Complete", "Reported">> }

\* C13: a scan of a non-empty range moves only along Idle, Running,
\* Draining, Complete, Reported, one state at a time, and Reported is
\* terminal.
C13_LifecycleInOrder ==
    /\ [][start_port <= end_port =>
            (Phase' = Phase \/ <<Phase, Phase'>> \in LifecycleSteps)]_vars
    /\ [][Phase /= "Reported"]_vars

\* C13 witness: a scan of several ports has gone through to Reported.
C13_Witness ==
    /\ Phase = "Reported"
    /\ start_port < end_port
    /\ pb_finished

\* C14: a probe's slot is released only once its outcome is recorded: an
\* Open probe has sent before it increments the progress bar, the slot is
\* freed by the step that increments, and so every Open port counted in the
\* progress position has been published.
C14_RecordedBeforeRelease ==
    /\ [](\A p \in InFlight :
             /\ incs[p] = 0
             /\ (futures[p] = "inc" /\ target[p] = "Open") => sends[p] = 1
             /\ futures[p] \in {"connect", "send"} => sends[p] = 0)
    /\ [](\A q \in OpenSet : incs[q] >= 1 => sends[q] = 1)
    /\ [][\A p \in InFlight :
            /\ incs'[p] > incs[p] =>
                  (target[p] = "Open" => sends[p] = 1)
            /\ p \notin InFlight' =>
                  /\ incs'[p] = 1
                  /\ pb_pos' = pb_pos + 1
                  /\ target[p] = "Open" => sends[p] = 1]_vars

\* C14 witness: with one slot, an Open probe has sent and been counted, and
\* its slot is now used by the next port.
C14_Witness ==
    /\ concurrency = 1
    /\ \E p \in OpenSet, q \in InFlight :
          /\ p < q
          /\ incs[p] = 1 /\ sends[p] = 1
          /\ p \in Range(buffer)

\* the ports whose tx.send completed
Published == {p \in Ports : sends[p] >= 1}

\* C15: once the dispatcher has returned the drain loop ends: only the
\* original Sender is left at drop(tx), none at the first recv, so recv is
\* never left waiting; it hands over each published port exactly once and
\* then sees the channel closed with nothing left in it.
C15_DrainTerminates ==
    /\ pc = "drop_tx" => senders = 1
    /\ pc = "recv" =>
          /\ senders = 0
          /\ ENABLED (RecvPort \/ RecvClosed)
          /\ Range(drain_log) \cup Range(buffer) = Published
          /\ Len(drain_log) + Len(buffer) = Cardinality(Published)
          /\ open_ports = drain_log
    /\ pc \in {"finish", "sort", "done"} =>
          /\ buffer = <<>>
          /\ Range(drain_log) = Published
          /\ Len(drain_log) = Cardinality(Published)

\* C15 witness: recv has returned None after handing over two or more ports.
C15_Witness ==
    /\ pc = "finish"
    /\ Len(drain_log) >= 2
    /\ senders = 0

\* C16: admission is work-conserving: while a port of the range is still
\* to be admitted and fewer than `concurrency` probes are in flight the
\* dispatcher can admit it, so admission waits only when exactly
\* `concurrency` probes are in flight; a probe in flight can always take
\* its next step unless it is a send waiting for room in the channel.
C16_WorkConserving ==
    pc = "dispatch" =>
        /\ (~RangeIsEmpty /\ Cardinality(InFlight) < concurrency) => ENABLED Admit
        /\ (~RangeIsEmpty /\ ~ENABLED Admit) => Cardinality(InFlight) = concurrency
        /\ ~RangeIsEmpty => stream_live
        /\ \A p \in InFlight :
              /\ futures[p] = "connect" => ENABLED ProbeConnect(p)
              /\ futures[p] = "inc" => ENABLED ProbeInc(p)
              /\ (futures[p] = "send" /\ Len(buffer) < channel_cap) =>
                    ENABLED ProbeSend(p)

\* C16 witness: a probe is running, a slot is free and a port is waiting.
C16_Witness ==
    /\ pc = "dispatch"
    /\ ~RangeIsEmpty
    /\ InFlight /= {}
    /\ Cardinality(InFlight) < concurrency
    /\ Len(admit_log) > Cardinality(InFlight)

\* C17: until the dispatcher returns nothing is received: the queue holds
\* exactly the ports published so far and never more than the build's
\* CHANNEL_BUFFER_SIZE; a probe that stands at its send while the queue is
\* full cannot send, stays in the send and keeps its slot.
C17_BufferedUntilDrain ==
    /\ [](/\ channel_cap \in {CHANNEL_BUFFER_SIZE, CHANNEL_BUFFER_SIZE_CLI}
           /\ Len(buffer) <= channel_cap)
    /\ [](pc = "dispatch" =>
            /\ open_ports = <<>> /\ drain_log = <<>>
            /\ Range(buffer) = Published
            /\ Len(buffer) = Cardinality(Published)
            /\ \A p \in InFlight :
                  (futures[p] = "send" /\ Len(buffer) = channel_cap) =>
                      ~ENABLED ProbeSend(p))
    /\ [][\A p \in InFlight :
            (futures[p] = "send" /\ Len(buffer) = channel_cap) =>
                (p \in InFlight' /\ futures'[p] = "send")]_vars

\* C17 witness: the queue of the 250-slot build is full and a probe stands
\* at its send, holding its slot.
C17_Witness ==
    /\ pc = "dispatch"
    /\ channel_cap = CHANNEL_BUFFER_SIZE
    /\ Len(buffer) = channel_cap
    /\ \E p \in InFlight : futures[p] = "send"

\* The number of steps the run can still take, at most: every step of the
\* program lowers it.
Measure ==
    LET total == IF start_port <= end_port THEN end_port - start_port + 1 ELSE 0
        at(k) == Cardinality({p \in InFlight : futures[p] = k})
        pcRank == CASE pc = "check_range" -> 20
                    [] pc = "dispatch" -> 6
                    [] pc = "drop_tx" -> 5
                    [] pc = "recv" -> 4
                    [] pc = "finish" -> 2
                    [] pc = "sort" -> 1
                    [] OTHER -> 0
    IN pcRank + (IF stream_live THEN 1 ELSE 0) + Len(buffer)
       + 8 * (total - Len(admit_log))
       + 6 * at("connect") + 4 * at("send") + 2 * at("inc")

\* C18: when at most CHANNEL_BUFFER_SIZE ports of the range are Open, no
\* probe ever stands at a send that cannot complete, a valid scan can always
\* take a further step until it has printed its report, every step brings
\* it nearer to that (so under fair scheduling it gets there), and it gets
\* there with the progress position at end_port - start_port + 1.  (At
\* "sort" the next step, SortAndDisplay, has no other condition.)
C18_FewOpenPortsComplete ==
    /\ [](Cardinality(OpenSet) <= channel_cap =>
            /\ \A p \in InFlight : futures[p] = "send" => ENABLED ProbeSend(p)
            /\ (start_port <= end_port /\ pc \notin {"sort", "done"}) =>
                  ENABLED Next
            /\ pc = "done" =>
                  /\ pb_finished
                  /\ pb_pos = end_port - start_port + 1)
    /\ [][Measure' < Measure /\ Measure' >= 0]_vars

\* C18 witness: a scan with exactly CHANNEL_BUFFER_SIZE open ports, and
\* others, has reported.
C18_Witness ==
    /\ pc = "done"
    /\ Cardinality(OpenSet) = channel_cap
    /\ OpenSet /= Ports
    /\ pb_pos = end_port - start_port + 1

(***************************************************************************)
(* The range check and the total at the edges of the u16 port space        *)
(***************************************************************************)
\* ports at the edges of the validated range and of the byte boundaries
EdgePorts ==
    {MIN_PORT, MIN_PORT + 1, 255, 256, 257, 32767, 32768, MAX_PORT - 1, MAX_PORT}

\* main up to the creation of the port stream, for arguments at the edges
TotalInit ==
    /\ start_port \in EdgePorts
    /\ end_port \in EdgePorts
    /\ concurrency = 1
    /\ channel_cap = CHANNEL_BUFFER_SIZE
    /\ target = [p \in start_port..end_port |-> "Closed"]
    /\ ValidPort(start_port) /\ ValidPort(end_port)
    /\ ValidConcurrency(concurrency)
    /\ pc = "check_range"
    /\ exit_code = -1
    /\ pb_len = 0
    /\ pb_pos = 0
    /\ pb_finished = FALSE
    /\ buffer = <<>>
    /\ senders = 0
    /\ range_start = 0
    /\ range_exhausted = FALSE
    /\ stream_live = FALSE
    /\ futures = <<>>
    /\ open_ports = <<>>
    /\ report = [none |-> FALSE, ports |-> <<>>]
    /\ stderr = <<>>
    /\ drain_log = <<>>
    /\ admit_log = <<>>
    /\ sends = [p \in start_port..end_port |-> 0]
    /\ incs = [p \in start_port..end_port |-> 0]

TotalNext ==
    \/ RejectRange
    \/ Setup

TotalSpec == TotalInit /\ [][TotalNext]_vars

\* C19: for validated arguments with start_port <= end_port the total
\* end_port - start_port + 1 stays within u16 at the subtraction and at the
\* addition, and the progress bar's length is the number of ports of
\* start_port..=end_port, up to the full range 1..65535.
C19_TotalExact ==
    (ValidPort(start_port) /\ ValidPort(end_port) /\ start_port <= end_port) =>
        /\ ~TotalOverflows(start_port, end_port)
        /\ TotalPorts(start_port, end_port) = Cardinality(start_port..end_port)
        /\ pc = "dispatch" =>
              /\ pb_len = Cardinality(start_port..end_port)
              /\ pb_len = end_port - start_port + 1
              /\ InU16(pb_len) /\ pb_len >= 1

\* C19 witness: the bar has been created for the full range 1..65535.
C19_Witness ==
    /\ pc = "dispatch"
    /\ start_port = MIN_PORT
    /\ end_port = MAX_PORT
    /\ pb_len = 65535

=============================================================================
